---- MODULE Spec2Model ----
(***************************************************************************)
(* VelocyPack codec (rust-velocypack): the Serializer of src/src/ser.rs    *)
(* and the Deserializer of src/src/de.rs.                                  *)
(*                                                                         *)
(* Bytes are the integers 0..255 and byte strings are sequences of them.   *)
(* A 64 bit integer is held as its eight little-endian two's-complement    *)
(* bytes (the result of to_le_bytes), a narrower one as its 1, 2 or 4      *)
(* bytes, because the model checker's integers are 32 bits wide.           *)
(*                                                                         *)
(* Values are tuples tagged by their first component:                      *)
(*   <<"int", ty, d>>   integer of Rust type ty with little-endian bytes d *)
(*   <<"str", s>>       string with UTF-8 bytes s                          *)
(*   <<"rep", b, n>>    the string of n bytes b                            *)
(*   <<"bool", b>>, <<"unit">>, <<"f64", bits>>                            *)
(*   <<"seq", xs>>      array of the values xs                             *)
(*   <<"map", kvs>>     object, kvs a sequence of <<key, value>> pairs     *)
(***************************************************************************)
EXTENDS Integers, Sequences, FiniteSets, TLC

\* ------------------------------------------------------------------------
\* Bounds of the model
\* ------------------------------------------------------------------------
MaxItems == 2
MaxPairs == 2
MaxExtra == 2
\* the entries buffered by an open array or object hold at most MaxBytes
\* bytes
MaxBytes == 65536

\* the longest run of 0x00 padding bytes in a hand-written container
MaxPad == 2

\* ------------------------------------------------------------------------
\* Byte helpers
\* ------------------------------------------------------------------------
Rep(b, n) == [i \in 1..n |-> b]

Drop(s, n) == SubSeq(s, n + 1, Len(s))

Take(s, n) == SubSeq(s, 1, n)

RECURSIVE to_le_bytes(_, _)
to_le_bytes(x, n) ==
    IF n = 0 THEN <<>> ELSE <<x % 256>> \o to_le_bytes(x \div 256, n - 1)

\* A usize too large for the model checker's integers is held as UsizeHuge:
\* it exceeds the length of every buffer of the model, so that slicing with
\* it is out of range and counting down from it never reaches zero.
UsizeHuge == 16777216

\* u8/u16/u32/u64::from_le_bytes(b) as usize
from_le_bytes(b) ==
    IF \E j \in 4..Len(b) : b[j] # 0
    THEN UsizeHuge
    ELSE LET z == b \o <<0, 0, 0>>
         IN z[1] + 256 * z[2] + 65536 * z[3]

\* a - b on usize: wraps when overflow checks are off (the caller decides
\* what happens when they are on)
WrapSub(a, b) == IF a >= b THEN a - b ELSE UsizeHuge

RECURSIVE SumLen(_)
SumLen(xs) == IF xs = <<>> THEN 0 ELSE Len(xs[1]) + SumLen(Drop(xs, 1))

RECURSIVE Concat(_)
Concat(xs) == IF xs = <<>> THEN <<>> ELSE xs[1] \o Concat(Drop(xs, 1))

\* lexicographic order of byte strings (Ord for Vec<u8>)
LexLess(a, b) ==
    \/ Len(a) < Len(b) /\ Take(b, Len(a)) = a
    \/ \E i \in 1..Len(a) :
          /\ i <= Len(b)
          /\ a[i] < b[i]
          /\ \A j \in 1..(i - 1) : a[j] = b[j]

\* ------------------------------------------------------------------------
\* Integer types
\* ------------------------------------------------------------------------
SignedTypes == {"i8", "i16", "i32", "i64"}

UnsignedTypes == {"u8", "u16", "u32", "u64"}

IntTypes == SignedTypes \cup UnsignedTypes

Width(ty) ==
    CASE ty \in {"i8", "u8"} -> 1
      [] ty \in {"i16", "u16"} -> 2
      [] ty \in {"i32", "u32"} -> 4
      [] ty \in {"i64", "u64"} -> 8

IsNeg(d) == d[Len(d)] >= 128

\* `as i64` of a signed value, `as u64` of a non-negative one
SignExtend(d, n) == d \o Rep(IF IsNeg(d) THEN 255 ELSE 0, n - Len(d))

ZeroExtend(d, n) == d \o Rep(0, n - Len(d))

\* T::try_from(v: i64) succeeds
FitsSigned(d8, w) ==
    \A j \in (w + 1)..8 : d8[j] = (IF d8[w] >= 128 THEN 255 ELSE 0)

\* T::try_from(v: u64) succeeds, for unsigned T and for signed T
FitsUnsigned(d8, w) == \A j \in (w + 1)..8 : d8[j] = 0

FitsUnsignedInSigned(d8, w) == FitsUnsigned(d8, w) /\ d8[w] < 128

\* ------------------------------------------------------------------------
\* Serializer: scalars (ser.rs)
\* ------------------------------------------------------------------------
serialize_negative_int(v) ==
    IF (\A j \in 2..8 : v[j] = 255) /\ v[1] >= 250
    THEN << (64 + (v[1] - 256)) % 256 >>
    ELSE LET bit == CHOOSE k \in 0..7 :
                        /\ v[k + 1] # 255
                        /\ \A j \in (k + 1)..7 : v[j + 1] = 255
         IN IF bit = 0 /\ v[bit + 1] < 128
            THEN <<32 + bit + 1>> \o Take(v, bit + 1) \o <<255>>
            ELSE <<32 + bit>> \o Take(v, bit + 1)

\* a serialize_unsigned_int that never drops the high zero bytes of a
\* value above 9
serialize_unsigned_int_full_width(v) ==
    IF (\A j \in 2..8 : v[j] = 0) /\ v[1] < 10
    THEN <<48 + v[1]>>
    ELSE <<47>> \o v

serialize_unsigned_int(v) ==
    IF (\A j \in 2..8 : v[j] = 0) /\ v[1] < 10
    THEN <<48 + v[1]>>
    ELSE LET bit == CHOOSE k \in 0..7 :
                        /\ v[k + 1] # 0
                        /\ \A j \in (k + 1)..7 : v[j + 1] = 0
         IN <<40 + bit>> \o Take(v, bit + 1)

\* serialize_i8 .. serialize_i64, serialize_u8 .. serialize_u64
serialize_int(ty, d) ==
    IF ty \in SignedTypes
    THEN IF ~IsNeg(d)
         THEN serialize_unsigned_int(ZeroExtend(d, 8))
         ELSE serialize_negative_int(SignExtend(d, 8))
    ELSE serialize_unsigned_int(ZeroExtend(d, 8))

\* v.as_bytes() of a string value
as_bytes(v) == IF v[1] = "rep" THEN Take(Rep(v[2], v[3]), v[3]) ELSE v[2]

\* a serialize_str that keeps the short form up to 127 bytes
serialize_str_short_127(s) ==
    IF s = <<>>
    THEN <<64>>
    ELSE IF Len(s) <= 127
         THEN <<64 + Len(s)>> \o s
         ELSE <<191>> \o to_le_bytes(Len(s), 8) \o s

serialize_str(s) ==
    IF s = <<>>
    THEN <<64>>
    ELSE IF Len(s) <= 126
         THEN <<64 + Len(s)>> \o s
         ELSE <<191>> \o to_le_bytes(Len(s), 8) \o s

serialize_bool(b) == IF b THEN <<26>> ELSE <<25>>

serialize_unit == <<24>>

serialize_f64(bits) == <<27>> \o bits

serialize_bytes(v) ==
    LET b == to_le_bytes(Len(v), 8)
    IN IF \A k \in 0..6 : b[k + 1] = 0
       THEN <<>>
       ELSE LET bit == CHOOSE k \in 0..6 :
                           /\ b[k + 1] # 0
                           /\ \A j \in (k + 1)..6 : b[j + 1] = 0
            IN <<192 + bit>> \o Take(b, bit + 1)

\* ------------------------------------------------------------------------
\* Serializer: containers (ser.rs)
\* The result of an encoding step is a record: st = "ok" with the bytes it
\* appends to the output, st = "err" (Error::Message) or st = "panic".
\* ------------------------------------------------------------------------
SerOk(bytes) == [st |-> "ok", bytes |-> bytes]

SerErr == [st |-> "err", bytes |-> <<>>]

SerPanic == [st |-> "panic", bytes |-> <<>>]

\* The byte sizes of a container go beyond the model checker's integers
\* (a payload of 2^32 bytes is where the widths 4 and 8 part), so a size is
\* held as <<q, r>>, the usize q * 2^24 + r with r < 2^24.
Usize(n) == <<n \div UsizeHuge, n % UsizeHuge>>

UsizePlus(a, n) == <<a[1] + (a[2] + n) \div UsizeHuge, (a[2] + n) % UsizeHuge>>

UsizeLess(a, b) == a[1] < b[1] \/ (a[1] = b[1] /\ a[2] < b[2])

\* (a as u8 / u16 / u32 / u64).to_le_bytes()
usize_to_le_bytes(a, n) == Take(to_le_bytes(a[2], 3) \o to_le_bytes(a[1], 5), n)

needed_size(n_bytes, item_size, n_items) ==
    UsizePlus(item_size, 1 + n_bytes + n_bytes + n_items * n_bytes)

\* needed_size < 2_usize.pow(n_bytes * 8), for n_bytes in 1, 2, 4
fits_width(n_bytes, needed) ==
    CASE n_bytes = 1 -> UsizeLess(needed, <<0, 256>>)
      [] n_bytes = 2 -> UsizeLess(needed, <<0, 65536>>)
      [] n_bytes = 4 -> UsizeLess(needed, <<256, 0>>)

\* the loop `for n_bytes in &[1, 2, 4, 8]`: the first width accepted.  At
\* n_bytes = 8 the bound 2_usize.pow(64) overflows: a panic with overflow
\* checks, and 0 without them, so that no width is accepted (0).
width_search(item_size, n_items, checks) ==
    IF fits_width(1, needed_size(1, item_size, n_items)) THEN 1
    ELSE IF fits_width(2, needed_size(2, item_size, n_items)) THEN 2
    ELSE IF fits_width(4, needed_size(4, item_size, n_items)) THEN 4
    ELSE IF checks THEN 0 - 1 ELSE 0

\* the offsets pushed by the payload loop
RECURSIVE entry_offsets(_, _)
entry_offsets(lens, offset) ==
    IF lens = <<>> THEN <<>>
    ELSE <<offset>> \o entry_offsets(Drop(lens, 1), offset + lens[1])

\* an index table that holds the entries' numbers instead of their offsets
index_table_of_numbers(offsets, n_bytes) ==
    Concat([i \in 1..Len(offsets) |-> to_le_bytes(i, n_bytes)])

index_table(offsets, n_bytes) ==
    Concat([i \in 1..Len(offsets) |-> to_le_bytes(offsets[i], n_bytes)])

array_tag(n_bytes) ==
    CASE n_bytes = 1 -> 6 [] n_bytes = 2 -> 7 [] n_bytes = 4 -> 8 [] n_bytes = 8 -> 9

object_tag(n_bytes) ==
    CASE n_bytes = 1 -> 11 [] n_bytes = 2 -> 12 [] n_bytes = 4 -> 13 [] n_bytes = 8 -> 14

\* the header of an equal-length array: type byte and byte-length field
equal_length_header(byte_size) ==
    IF UsizeLess(byte_size, <<0, 256 - 2>>)
    THEN <<2>> \o usize_to_le_bytes(UsizePlus(byte_size, 2), 1)
    ELSE IF UsizeLess(byte_size, <<0, 65536 - 3>>)
    THEN <<3>> \o usize_to_le_bytes(UsizePlus(byte_size, 3), 2)
    ELSE IF UsizeLess(byte_size, <<255, UsizeHuge - 4>>)
    THEN <<4>> \o usize_to_le_bytes(UsizePlus(byte_size, 4), 4)
    ELSE <<5>> \o usize_to_le_bytes(UsizePlus(byte_size, 5), 8)

\* what end_array / end_map write before the payload: type byte,
\* byte-length field and item count; nothing when no width was accepted
write_header(tag, n_bytes, item_size, n_items) ==
    IF n_bytes <= 0 THEN <<>>
    ELSE <<tag>> \o usize_to_le_bytes(needed_size(n_bytes, item_size, n_items), n_bytes)
               \o to_le_bytes(n_items, n_bytes)

\* an end_array that writes the indexed form also for elements of equal
\* length
end_array_always_indexed(items, checks) ==
    IF items = <<>>
    THEN SerOk(<<1>>)
    ELSE LET n_items == Len(items)
             item_size == Usize(SumLen(items))
             n_bytes == width_search(item_size, n_items, checks)
             offsets == entry_offsets([i \in 1..n_items |-> Len(items[i])],
                                      1 + 2 * n_bytes)
         IN IF n_bytes < 0 THEN SerPanic
            ELSE IF n_bytes = 0 THEN SerOk(<<>>)
            ELSE SerOk(write_header(array_tag(n_bytes), n_bytes, item_size, n_items)
                       \o Concat(items)
                       \o index_table(offsets, n_bytes))

end_array(items, checks) ==
    IF items = <<>>
    THEN SerOk(<<1>>)
    ELSE LET elem_len == Len(items[1])
             same_length == \A i \in 1..Len(items) : Len(items[i]) = elem_len
         IN IF same_length
            THEN SerOk(equal_length_header(Usize(Len(items) * elem_len)) \o Concat(items))
            ELSE LET n_items == Len(items)
                     item_size == Usize(SumLen(items))
                     n_bytes == width_search(item_size, n_items, checks)
                     offsets == entry_offsets([i \in 1..n_items |-> Len(items[i])],
                                              1 + 2 * n_bytes)
                 IN IF n_bytes < 0 THEN SerPanic
                    ELSE IF n_bytes = 0 THEN SerOk(<<>>)
                    ELSE SerOk(write_header(array_tag(n_bytes), n_bytes, item_size, n_items)
                               \o Concat(items)
                               \o index_table(offsets, n_bytes))

\* sorted_keys.sort_by_key(|(_i, v)| v.clone()): a stable sort of the
\* indices by the keys' bytes
sort_rank(keys, i) ==
    1 + Cardinality({j \in 1..Len(keys) :
                        \/ LexLess(keys[j], keys[i])
                        \/ keys[j] = keys[i] /\ j < i})

\* a sorted_offset_idx that keeps the order the keys were provided in
sorted_offset_idx_unsorted(keys) == [r \in 1..Len(keys) |-> r]

sorted_offset_idx(keys) ==
    [r \in 1..Len(keys) |-> CHOOSE i \in 1..Len(keys) : sort_rank(keys, i) = r]

\* an end_map that writes the entries in the order of the sorted keys
end_map_sorted_payload(keys, values, checks) ==
    IF keys = <<>>
    THEN IF values # <<>> THEN SerPanic ELSE SerOk(<<10>>)
    ELSE IF Len(keys) # Len(values) THEN SerPanic
    ELSE LET n_items == Len(keys)
             item_size == Usize(SumLen(keys) + SumLen(values))
             n_bytes == width_search(item_size, n_items, checks)
             offsets == entry_offsets(
                            [i \in 1..n_items |-> Len(keys[i]) + Len(values[i])],
                            1 + 2 * n_bytes)
             idx == sorted_offset_idx(keys)
         IN IF n_bytes < 0 THEN SerPanic
            ELSE IF n_bytes = 0 THEN SerOk(<<>>)
            ELSE SerOk(write_header(object_tag(n_bytes), n_bytes, item_size, n_items)
                       \o Concat([r \in 1..n_items |-> keys[idx[r]] \o values[idx[r]]])
                       \o index_table([r \in 1..n_items |-> offsets[idx[r]]], n_bytes))

end_map(keys, values, checks) ==
    IF keys = <<>>
    THEN IF values # <<>> THEN SerPanic ELSE SerOk(<<10>>)
    ELSE IF Len(keys) # Len(values) THEN SerPanic
    ELSE LET n_items == Len(keys)
             item_size == Usize(SumLen(keys) + SumLen(values))
             n_bytes == width_search(item_size, n_items, checks)
             offsets == entry_offsets(
                            [i \in 1..n_items |-> Len(keys[i]) + Len(values[i])],
                            1 + 2 * n_bytes)
             idx == sorted_offset_idx(keys)
         IN IF n_bytes < 0 THEN SerPanic
            ELSE IF n_bytes = 0 THEN SerOk(<<>>)
            ELSE SerOk(write_header(object_tag(n_bytes), n_bytes, item_size, n_items)
                       \o Concat([i \in 1..n_items |-> keys[i] \o values[i]])
                       \o index_table([r \in 1..n_items |-> offsets[idx[r]]], n_bytes))

\* a serialize_map_key that accepts a key of any kind
serialize_map_key_any_tag(enc) ==
    IF enc.st # "ok" THEN enc
    ELSE IF enc.bytes = <<>> THEN SerErr
    ELSE enc

\* serialize_map_key: the key's own encoding, accepted when it starts with
\* a string tag
serialize_map_key(enc) ==
    IF enc.st # "ok" THEN enc
    ELSE IF enc.bytes = <<>> THEN SerErr
    ELSE IF enc.bytes[1] >= 64 /\ enc.bytes[1] <= 191 THEN enc
    ELSE SerErr

\* value.serialize(&mut Serializer::default()): the bytes of one value.
\* Arrays and objects go through serialize_seq / serialize_map, one
\* serialize_element / serialize_key + serialize_value per entry (stopping
\* at the first failure), and end.
RECURSIVE serialize(_, _)
serialize(v, checks) ==
    CASE v[1] = "int" -> SerOk(serialize_int(v[2], v[3]))
      [] v[1] = "str" -> SerOk(serialize_str(v[2]))
      [] v[1] = "rep" -> SerOk(serialize_str(as_bytes(v)))
      [] v[1] = "bool" -> SerOk(serialize_bool(v[2]))
      [] v[1] = "unit" -> SerOk(serialize_unit)
      [] v[1] = "f64" -> SerOk(serialize_f64(v[2]))
      [] v[1] = "bytes" -> SerOk(serialize_bytes(v[2]))
      [] v[1] = "seq" ->
            LET rs == [i \in 1..Len(v[2]) |-> serialize(v[2][i], checks)]
            IN IF \E i \in 1..Len(rs) : rs[i].st # "ok"
               THEN rs[CHOOSE i \in 1..Len(rs) :
                          rs[i].st # "ok" /\ \A j \in 1..(i - 1) : rs[j].st = "ok"]
               ELSE end_array([i \in 1..Len(rs) |-> rs[i].bytes], checks)
      [] v[1] = "map" ->
            LET ks == [i \in 1..Len(v[2]) |->
                          serialize_map_key(serialize(v[2][i][1], checks))]
                vs == [i \in 1..Len(v[2]) |-> serialize(v[2][i][2], checks)]
                bad == {i \in 1..Len(v[2]) : ks[i].st # "ok" \/ vs[i].st # "ok"}
            IN IF bad # {}
               THEN LET i == CHOOSE i \in bad : \A j \in bad : i <= j
                    IN IF ks[i].st # "ok" THEN ks[i] ELSE vs[i]
               ELSE end_map([i \in 1..Len(ks) |-> ks[i].bytes],
                            [i \in 1..Len(vs) |-> vs[i].bytes], checks)

\* to_bytes(value)
to_bytes(v, checks) == serialize(v, checks)

\* ------------------------------------------------------------------------
\* Deserializer: cursor and scalars (de.rs)
\* A result is a record: st = "ok" with the value v, or st = "err" with the
\* Error variant err (n is the payload of TrailingBytes and Unimplemented),
\* or st = "panic" when the call aborts; input is the cursor's remaining
\* slice after the call.
\* ------------------------------------------------------------------------
NoValue == <<"none">>

Ok(v, input) == [st |-> "ok", v |-> v, err |-> "", n |-> 0, input |-> input]

Err(e, input) == [st |-> "err", v |-> NoValue, err |-> e, n |-> 0, input |-> input]

ErrN(e, n, input) == [st |-> "err", v |-> NoValue, err |-> e, n |-> n, input |-> input]

Panic(input) == [st |-> "panic", v |-> NoValue, err |-> "", n |-> 0, input |-> input]

\* a cursor that blanks the bytes it has read instead of moving past them
consume_bytes_in_place(input, n) == [i \in 1..Len(input) |-> IF i <= n THEN 0 ELSE input[i]]

consume_bytes(input, n) == Drop(input, n)

\* the number of leading 0x00 bytes consume_padding skips
RECURSIVE PaddingLen(_, _)
PaddingLen(input, k) ==
    IF k < Len(input) /\ input[k + 1] = 0 THEN PaddingLen(input, k + 1) ELSE k

\* consume_padding: Eof when the input ends before a non-zero byte
consume_padding(input) ==
    LET k == PaddingLen(input, 0)
    IN IF k = Len(input) THEN Err("Eof", Drop(input, k)) ELSE Ok(NoValue, Drop(input, k))

\* std::str::from_utf8(s).is_ok()
IsCont(x) == x >= 128 /\ x <= 191

ContCount(x) ==
    CASE x < 128 -> 0
      [] x >= 194 /\ x <= 223 -> 1
      [] x >= 224 /\ x <= 239 -> 2
      [] x >= 240 /\ x <= 244 -> 3
      [] OTHER -> 0 - 1

SecondOk(lead, x) ==
    CASE lead = 224 -> x >= 160
      [] lead = 237 -> x <= 159
      [] lead = 240 -> x >= 144
      [] lead = 244 -> x <= 143
      [] OTHER -> TRUE

from_utf8_ok(s) ==
    \/ \A i \in 1..Len(s) : s[i] < 128
    \/ \A i \in 1..Len(s) :
        IF IsCont(s[i])
        THEN \E d \in 1..3 :
                /\ i - d >= 1
                /\ ContCount(s[i - d]) >= d
                /\ \A j \in (i - d + 1)..(i - 1) : IsCont(s[j])
        ELSE /\ ContCount(s[i]) >= 0
             /\ i + ContCount(s[i]) <= Len(s)
             /\ \A j \in (i + 1)..(i + ContCount(s[i])) : IsCont(s[j])
             /\ ContCount(s[i]) >= 1 => SecondOk(s[i], s[i + 1])

\* a boolean parser that takes the type byte with next_byte
parse_bool_next_byte(input) ==
    IF input = <<>> THEN Err("Eof", input)
    ELSE IF input[1] = 25 THEN Ok(<<"bool", FALSE>>, consume_bytes(input, 1))
    ELSE IF input[1] = 26 THEN Ok(<<"bool", TRUE>>, consume_bytes(input, 1))
    ELSE Err("ExpectedBoolean", consume_bytes(input, 1))

parse_bool(input) ==
    IF input = <<>> THEN Err("Eof", input)
    ELSE IF input[1] = 25 THEN Ok(<<"bool", FALSE>>, consume_bytes(input, 1))
    ELSE IF input[1] = 26 THEN Ok(<<"bool", TRUE>>, consume_bytes(input, 1))
    ELSE Err("ExpectedBoolean", input)

parse_double(input) ==
    IF input = <<>> THEN Err("Eof", input)
    ELSE IF input[1] # 27 THEN Err("ExpectedDouble", input)
    ELSE LET in1 == consume_bytes(input, 1)
         IN IF Len(in1) < 8 THEN Panic(in1)
            ELSE Ok(<<"f64", Take(in1, 8)>>, consume_bytes(in1, 8))

deserialize_unit(input) ==
    IF input = <<>> THEN Err("Eof", input)
    ELSE IF input[1] = 24 THEN Ok(<<"unit">>, consume_bytes(input, 1))
    ELSE Err("ExpectedNull", input)

parse_unsigned(ty, input) ==
    IF input = <<>> THEN Err("Eof", input)
    ELSE LET b == input[1]
         IN IF b >= 40 /\ b <= 47
            THEN LET n_bytes == b - 39
                     in1 == consume_bytes(input, 1)
                 IN IF Len(in1) < n_bytes THEN Panic(in1)
                    ELSE LET le_bytes == ZeroExtend(Take(in1, n_bytes), 8)
                             fits == IF ty \in SignedTypes
                                     THEN FitsUnsignedInSigned(le_bytes, Width(ty))
                                     ELSE FitsUnsigned(le_bytes, Width(ty))
                         IN IF ~fits THEN Err("NumberTooLarge", in1)
                            ELSE Ok(<<"int", ty, Take(le_bytes, Width(ty))>>,
                                    consume_bytes(in1, n_bytes))
            ELSE IF b >= 48 /\ b <= 57
            THEN Ok(<<"int", ty, ZeroExtend(<<b - 48>>, Width(ty))>>,
                    consume_bytes(input, 1))
            ELSE Err("ExpectedInteger", input)

parse_signed(ty, input) ==
    IF input = <<>> THEN Err("Eof", input)
    ELSE LET b == input[1]
         IN IF b >= 58 /\ b <= 63
            THEN Ok(<<"int", ty, Take(<<256 - (64 - b)>> \o Rep(255, 7), Width(ty))>>,
                    consume_bytes(input, 1))
            ELSE IF b >= 32 /\ b <= 39
            THEN LET n_bytes == b - 31
                     in1 == consume_bytes(input, 1)
                 IN IF n_bytes \notin {1, 2, 4, 8} THEN Err("Message", in1)
                    ELSE IF Len(in1) < n_bytes THEN Panic(in1)
                    ELSE LET v == SignExtend(Take(in1, n_bytes), 8)
                         IN IF ~FitsSigned(v, Width(ty))
                            THEN Err("NumberTooLarge", in1)
                            ELSE Ok(<<"int", ty, Take(v, Width(ty))>>,
                                    consume_bytes(in1, n_bytes))
            ELSE LET r == parse_unsigned("u64", input)
                 IN IF r.st # "ok" THEN r
                    ELSE IF ~FitsUnsignedInSigned(r.v[3], Width(ty))
                         THEN Err("NumberTooLarge", r.input)
                         ELSE Ok(<<"int", ty, Take(r.v[3], Width(ty))>>, r.input)

parse_string(input) ==
    IF input = <<>> THEN Err("Eof", input)
    ELSE LET b == input[1]
         IN IF b = 191
            THEN LET in1 == consume_bytes(input, 1)
                 IN IF Len(in1) < 8 THEN Panic(in1)
                    ELSE LET length == from_le_bytes(Take(in1, 8))
                             in2 == consume_bytes(in1, 8)
                         IN IF Len(in2) < length THEN Panic(in2)
                            ELSE IF from_utf8_ok(Take(in2, length))
                                 THEN Ok(<<"str", Take(in2, length)>>,
                                         consume_bytes(in2, length))
                                 ELSE Err("InvalidUtf8", in2)
            ELSE IF b >= 64 /\ b <= 190
            THEN LET in1 == consume_bytes(input, 1)
                     length == b - 64
                 IN IF length = 0 THEN Ok(<<"str", <<>> >>, in1)
                    ELSE IF Len(in1) < length THEN Panic(in1)
                    ELSE IF from_utf8_ok(Take(in1, length))
                         THEN Ok(<<"str", Take(in1, length)>>,
                                 consume_bytes(in1, length))
                         ELSE Err("InvalidUtf8", in1)
            ELSE Err("ExpectedString", input)

\* ------------------------------------------------------------------------
\* Deserializer: containers (de.rs)
\* A type descriptor names the Rust type from_bytes is asked for:
\*   <<"i8">> .. <<"u64">>, <<"str">>, <<"bool">>, <<"unit">>, <<"f64">>,
\*   <<"seq", T>> (Vec<T>), <<"map", K, V>> (HashMap<K, V>) and <<"any">>
\*   (a self-describing value such as serde_json::Value).
\* ArrayDeserializer and MapDeserializer are the records
\*   [input, remaining_items, index_size], None standing for Option::None.
\* ------------------------------------------------------------------------
None == 0 - 1

NewAccess(input) == [input |-> input, remaining_items |-> None, index_size |-> None]

\* the result of next_element_seed / next_key_seed: st = "some" with v,
\* "none", "err" or "panic"; ad is the deserializer after the call
Step(st, v, err, ad) == [st |-> st, v |-> v, err |-> err, n |-> 0, ad |-> ad]

\* a / b where a may be UsizeHuge
HugeDiv(a, b) == IF a >= UsizeHuge THEN UsizeHuge ELSE a \div b

\* The 7-bit groups of a varint, least significant first, read from bs in
\* order: [st, val, used].  BitSlice::set panics for a bit index >= 64.
\* val is exact below 2^21 and UsizeHuge otherwise.
RECURSIVE varint(_, _, _, _)
varint(bs, i, acc, stop_at_end) ==
    IF i > Len(bs)
    THEN [st |-> IF stop_at_end THEN "ok" ELSE "eof", val |-> acc, used |-> i - 1]
    ELSE LET b == bs[i]
             payload == b % 128
             weight == CASE i = 1 -> 1 [] i = 2 -> 128 [] i = 3 -> 16384 [] OTHER -> 0
             acc1 == IF payload = 0 THEN acc
                     ELSE IF i >= 4 \/ acc >= UsizeHuge THEN UsizeHuge
                     ELSE acc + payload * weight
         IN IF (i = 10 /\ payload >= 2) \/ (i > 10 /\ payload # 0)
            THEN [st |-> "panic", val |-> acc, used |-> i]
            ELSE IF b < 128
            THEN [st |-> "ok", val |-> acc1, used |-> i]
            ELSE varint(bs, i + 1, acc1, stop_at_end)

Reverse(bs) == [i \in 1..Len(bs) |-> bs[Len(bs) + 1 - i]]

RECURSIVE deserialize(_, _, _)
RECURSIVE deserialize_any(_, _)
RECURSIVE next_element_seed(_, _, _)
RECURSIVE next_key_seed(_, _, _)
RECURSIVE visit_seq(_, _, _, _)
RECURSIVE visit_map(_, _, _, _, _)
RECURSIVE push_element(_, _, _, _)
RECURSIVE insert_key(_, _, _, _, _)
RECURSIVE insert_value(_, _, _, _, _, _)

\* `let v = seed.deserialize(&mut *self.de).map(Some)` with the result r
\* of the element's decode, and the remaining_items the access is left with
element(r, ad, remaining_items) ==
    IF r.st = "panic" THEN Step("panic", NoValue, "", [ad EXCEPT !.input = r.input])
    ELSE IF r.st = "err"
    THEN [st |-> "err", v |-> NoValue, err |-> r.err, n |-> r.n,
          ad |-> [ad EXCEPT !.input = r.input, !.remaining_items = remaining_items]]
    ELSE Step("some", r.v, "",
              [ad EXCEPT !.input = r.input, !.remaining_items = remaining_items])

\* the tail of next_element_seed and next_key_seed, once remaining_items
\* is known
next_item(ty, ad, checks) ==
    IF ad.remaining_items = 0
    THEN IF ad.index_size # None
         THEN IF Len(ad.input) < ad.index_size
              THEN Step("panic", NoValue, "", ad)
              ELSE Step("none", NoValue, "",
                        [ad EXCEPT !.input = consume_bytes(ad.input, ad.index_size)])
         ELSE Step("none", NoValue, "", ad)
    ELSE element(deserialize(ty, ad.input, checks), ad, ad.remaining_items - 1)

\* the first element of an equal-length array, decoded with the result r
\* from an input of old_size bytes: the item count is byte_length /
\* item_size, and remaining_items is that count less one
first_element(r, ad, old_size, byte_length, checks) ==
    LET item_size == old_size - Len(r.input)
        n_items == HugeDiv(byte_length, item_size)
    IN IF r.st = "panic" \/ item_size = 0 \/ (n_items = 0 /\ checks)
       THEN Step("panic", NoValue, "", [ad EXCEPT !.input = r.input])
       ELSE element(r, ad, WrapSub(n_items, 1))

\* tags 0x02..0x05: the length field of n_bytes bytes, the padding, the
\* first element, and the item count derived from its size
equal_length_first(ty, n_bytes, ad, checks) ==
    LET in1 == consume_bytes(ad.input, 1)
    IN IF Len(in1) < n_bytes THEN Step("err", NoValue, "Eof", [ad EXCEPT !.input = in1])
       ELSE LET total == from_le_bytes(Take(in1, n_bytes))
                in2 == consume_bytes(in1, n_bytes)
                byte_length == WrapSub(total, 1 + n_bytes)
                pad == consume_padding(in2)
            IN IF total < 1 + n_bytes /\ checks
               THEN Step("panic", NoValue, "", [ad EXCEPT !.input = in2])
               ELSE IF pad.st # "ok"
               THEN Step("err", NoValue, pad.err, [ad EXCEPT !.input = pad.input])
               ELSE first_element(deserialize(ty, pad.input, checks), ad,
                                  Len(pad.input), byte_length, checks)

\* tags 0x06..0x08: header and byte length skipped, the count field, the
\* padding
indexed_header(n_bytes, ad) ==
    IF Len(ad.input) < 1 + n_bytes
    THEN Step("panic", NoValue, "", ad)
    ELSE LET in1 == consume_bytes(ad.input, 1 + n_bytes)
         IN IF Len(in1) < n_bytes
            THEN Step("err", NoValue, "Eof", [ad EXCEPT !.input = in1])
            ELSE LET length == from_le_bytes(Take(in1, n_bytes))
                     pad == consume_padding(consume_bytes(in1, n_bytes))
                 IN IF pad.st # "ok"
                    THEN Step("err", NoValue, pad.err, [ad EXCEPT !.input = pad.input])
                    ELSE Step("go", NoValue, "",
                              [input |-> pad.input,
                               remaining_items |-> length,
                               index_size |-> length * n_bytes])

\* tag 0x09: the count is read from the last 8 bytes of the container
tail_count_header(ad, checks) ==
    LET in1 == consume_bytes(ad.input, 1)
    IN IF Len(in1) < 8 THEN Step("err", NoValue, "Eof", [ad EXCEPT !.input = in1])
       ELSE LET total == from_le_bytes(Take(in1, 8))
                in2 == consume_bytes(in1, 8)
                bytelength == WrapSub(total, 1 + 8)
                start == WrapSub(bytelength, 8)
            IN IF (total < 1 + 8 \/ bytelength < 8) /\ checks
               THEN Step("panic", NoValue, "", [ad EXCEPT !.input = in2])
               ELSE IF bytelength > Len(in2) \/ start > bytelength
               THEN Step("panic", NoValue, "", [ad EXCEPT !.input = in2])
               ELSE LET length == from_le_bytes(SubSeq(in2, start + 1, bytelength))
                    IN Step("go", NoValue, "",
                            [input |-> in2,
                             remaining_items |-> length,
                             index_size |-> length * 8 + 8])

\* tags 0x13 and 0x14: forward varint byte length, reverse varint at the
\* tail, and the item count taken from buf.len()
compact_header(ad, checks) ==
    LET in1 == consume_bytes(ad.input, 1)
        fwd == varint(in1, 1, 0, FALSE)
        in2 == consume_bytes(in1, fwd.used)
        header_size == 1 + fwd.used
        remaining_bytes == WrapSub(fwd.val, header_size)
    IN IF fwd.st = "eof" THEN Step("err", NoValue, "Eof", [ad EXCEPT !.input = in2])
       ELSE IF fwd.st = "panic" \/ (fwd.val < header_size /\ checks)
            \/ remaining_bytes > Len(in2)
       THEN Step("panic", NoValue, "", [ad EXCEPT !.input = in2])
       ELSE LET rev == varint(Reverse(Take(in2, remaining_bytes)), 1, 0, TRUE)
            IN IF rev.st = "panic"
               THEN Step("panic", NoValue, "", [ad EXCEPT !.input = in2])
               ELSE Step("go", NoValue, "",
                         [input |-> in2,
                          remaining_items |-> 8,
                          index_size |-> rev.used])

\* the first item after the header h has set remaining_items, or the
\* header's own failure
first_item(ty, h, checks) ==
    IF h.st = "go" THEN next_item(ty, h.ad, checks) ELSE h

next_element_seed(ty, ad, checks) ==
    IF ad.remaining_items # None THEN next_item(ty, ad, checks)
    ELSE IF ad.input = <<>> THEN Step("err", NoValue, "Eof", ad)
    ELSE LET b == ad.input[1]
         IN CASE b = 1 ->
                    next_item(ty, [ad EXCEPT !.input = consume_bytes(ad.input, 1),
                                             !.remaining_items = 0], checks)
              [] b \in 2..5 ->
                    equal_length_first(ty, CASE b = 2 -> 1 [] b = 3 -> 2
                                             [] b = 4 -> 4 [] b = 5 -> 8, ad, checks)
              [] b \in 6..8 ->
                    first_item(ty, indexed_header(CASE b = 6 -> 1 [] b = 7 -> 2
                                                    [] b = 8 -> 4, ad), checks)
              [] b = 9 -> first_item(ty, tail_count_header(ad, checks), checks)
              [] b = 19 -> first_item(ty, compact_header(ad, checks), checks)
              [] OTHER -> Step("err", NoValue, "ExpectedArray", ad)

\* tags 0x0b..0x12: the byte length (unused), the count field, the padding
object_header(n_bytes, ad, checks) ==
    LET in1 == consume_bytes(ad.input, 1)
    IN IF Len(in1) < n_bytes THEN Step("err", NoValue, "Eof", [ad EXCEPT !.input = in1])
       ELSE LET total == from_le_bytes(Take(in1, n_bytes))
                in2 == consume_bytes(in1, n_bytes)
            IN IF total < 1 + 2 * n_bytes /\ checks
               THEN Step("panic", NoValue, "", [ad EXCEPT !.input = in2])
               ELSE IF Len(in2) < n_bytes
               THEN Step("err", NoValue, "Eof", [ad EXCEPT !.input = in2])
               ELSE LET num_items == from_le_bytes(Take(in2, n_bytes))
                        pad == consume_padding(consume_bytes(in2, n_bytes))
                    IN IF pad.st # "ok"
                       THEN Step("err", NoValue, pad.err, [ad EXCEPT !.input = pad.input])
                       ELSE Step("go", NoValue, "",
                                 [input |-> pad.input,
                                  remaining_items |-> num_items,
                                  index_size |-> n_bytes * num_items])

next_key_seed(ty, ad, checks) ==
    IF ad.remaining_items # None THEN next_item(ty, ad, checks)
    ELSE IF ad.input = <<>> THEN Step("err", NoValue, "Eof", ad)
    ELSE LET b == ad.input[1]
         IN CASE b = 10 ->
                    Step("none", NoValue, "", [ad EXCEPT !.input = consume_bytes(ad.input, 1)])
              [] b \in 11..18 ->
                    first_item(ty, object_header(CASE b \in {11, 15} -> 1
                                                   [] b \in {12, 16} -> 2
                                                   [] b \in {13, 17} -> 4
                                                   [] b \in {14, 18} -> 8,
                                                 ad, checks), checks)
              [] b = 20 -> first_item(ty, compact_header(ad, checks), checks)
              [] OTHER -> Step("err", NoValue, "ExpectedObject", ad)

\* next_value_seed
next_value_seed(ty, ad, checks) == deserialize(ty, ad.input, checks)

\* visitor.visit_seq(ArrayDeserializer::new(..)) for a Vec<T> or a
\* self-describing value: next_element until None
visit_seq(ty, ad, acc, checks) ==
    push_element(ty, next_element_seed(ty, ad, checks), acc, checks)

\* `while let Some(value) = seq.next_element()? { values.push(value) }`
\* with the result r of next_element
push_element(ty, r, acc, checks) ==
    CASE r.st = "some" -> visit_seq(ty, r.ad, Append(acc, r.v), checks)
      [] r.st = "none" -> Ok(<<"seq", acc>>, r.ad.input)
      [] r.st = "err" -> ErrN(r.err, r.n, r.ad.input)
      [] r.st = "panic" -> Panic(r.ad.input)

\* visitor.visit_map(MapDeserializer::new(..)): next_key, next_value until
\* next_key returns None
visit_map(kty, vty, ad, acc, checks) ==
    insert_key(kty, vty, next_key_seed(kty, ad, checks), acc, checks)

\* `while let Some((key, value)) = map.next_entry()?`: the value of the key
\* that next_key returned as k
insert_key(kty, vty, k, acc, checks) ==
    CASE k.st = "some" ->
            insert_value(kty, vty, k, next_value_seed(vty, k.ad, checks), acc, checks)
      [] k.st = "none" -> Ok(<<"map", acc>>, k.ad.input)
      [] k.st = "err" -> ErrN(k.err, k.n, k.ad.input)
      [] k.st = "panic" -> Panic(k.ad.input)

\* the entry inserted with the result v of next_value, and the next entry
insert_value(kty, vty, k, v, acc, checks) ==
    IF v.st # "ok" THEN v
    ELSE visit_map(kty, vty, [k.ad EXCEPT !.input = v.input],
                   Append(acc, <<k.v, v.v>>), checks)

deserialize_any_string_above_bf(input, checks) ==
    IF input = <<>> THEN Err("Eof", input)
    ELSE LET b == input[1]
         IN CASE (b >= 1 /\ b <= 9) \/ b = 19 -> deserialize(<<"seq", <<"any">> >>, input, checks)
              [] (b >= 10 /\ b <= 18) \/ b = 20 ->
                    deserialize(<<"map", <<"str">>, <<"any">> >>, input, checks)
              [] b = 24 -> deserialize(<<"unit">>, input, checks)
              [] b = 25 \/ b = 26 -> deserialize(<<"bool">>, input, checks)
              [] b = 27 -> deserialize(<<"f64">>, input, checks)
              [] (b >= 32 /\ b <= 39) \/ (b >= 58 /\ b <= 63) ->
                    deserialize(<<"i64">>, input, checks)
              [] b >= 40 /\ b <= 57 -> deserialize(<<"u64">>, input, checks)
              [] b >= 64 /\ b <= 255 -> deserialize(<<"str">>, input, checks)
              [] OTHER -> ErrN("Unimplemented", b, input)

deserialize_any(input, checks) ==
    IF input = <<>> THEN Err("Eof", input)
    ELSE LET b == input[1]
         IN CASE (b >= 1 /\ b <= 9) \/ b = 19 -> deserialize(<<"seq", <<"any">> >>, input, checks)
              [] (b >= 10 /\ b <= 18) \/ b = 20 ->
                    deserialize(<<"map", <<"str">>, <<"any">> >>, input, checks)
              [] b = 24 -> deserialize(<<"unit">>, input, checks)
              [] b = 25 \/ b = 26 -> deserialize(<<"bool">>, input, checks)
              [] b = 27 -> deserialize(<<"f64">>, input, checks)
              [] (b >= 32 /\ b <= 39) \/ (b >= 58 /\ b <= 63) ->
                    deserialize(<<"i64">>, input, checks)
              [] b >= 40 /\ b <= 57 -> deserialize(<<"u64">>, input, checks)
              [] b >= 64 /\ b <= 191 -> deserialize(<<"str">>, input, checks)
              [] OTHER -> ErrN("Unimplemented", b, input)

\* T::deserialize(&mut deserializer)
deserialize(ty, input, checks) ==
    CASE ty[1] \in SignedTypes -> parse_signed(ty[1], input)
      [] ty[1] \in UnsignedTypes -> parse_unsigned(ty[1], input)
      [] ty[1] = "str" -> parse_string(input)
      [] ty[1] = "bool" -> parse_bool(input)
      [] ty[1] = "unit" -> deserialize_unit(input)
      [] ty[1] = "f64" -> parse_double(input)
      [] ty[1] = "seq" -> visit_seq(ty[2], NewAccess(input), <<>>, checks)
      [] ty[1] = "map" -> visit_map(ty[2], ty[3], NewAccess(input), <<>>, checks)
      [] ty[1] = "any" -> deserialize_any(input, checks)

first_from_bytes(ty, s, checks) == deserialize(ty, s, checks)

\* from_bytes after T::deserialize returned r: the value when the input
\* is used up, TrailingBytes(input.len()) otherwise
trailing_bytes(r) ==
    IF r.st # "ok" THEN r
    ELSE IF r.input = <<>> THEN r
    ELSE ErrN("TrailingBytes", Len(r.input), r.input)

from_bytes(ty, s, checks) == trailing_bytes(first_from_bytes(ty, s, checks))

\* ------------------------------------------------------------------------
\* The values and bytes the calls are made with
\* ------------------------------------------------------------------------
Fill == {0, 255}

Top == {0, 1, 9, 10, 127, 128, 249, 250, 255}

\* the integers of w bytes whose bytes below the n-th are f, whose n-th
\* byte is t and whose bytes above it are e
IntDigits(w) ==
    {Take([j \in 1..w |-> IF j < n THEN f ELSE IF j = n THEN t ELSE e], w) :
        n \in 1..w, f \in Fill, t \in Top, e \in {0, 255}}

IntValues == UNION {{<<"int", ty, d>> : d \in IntDigits(Width(ty))} : ty \in IntTypes}

LongLen == 250

BigLen == 65524

StrValues ==
    {<<"str", b>> : b \in {<<>>, <<97>>, <<98>>, <<97, 98>>, <<195, 169>>}}
    \cup {<<"rep", 65, n>> : n \in {126, 127, LongLen, BigLen}}

One == <<"int", "i64", <<1, 0, 0, 0, 0, 0, 0, 0>> >>

ElemValues ==
    {One,
     <<"int", "i64", <<0, 1, 0, 0, 0, 0, 0, 0>> >>,
     <<"str", <<97>> >>,
     <<"rep", 65, LongLen>>,
     <<"rep", 65, BigLen>>,
     <<"seq", <<>> >>,
     <<"seq", <<One, <<"str", <<97>> >> >> >>}

KeyValues == {<<"str", <<97>> >>, <<"str", <<98>> >>, <<"str", <<97, 98>> >>, One}

MapValues == {One, <<"rep", 65, LongLen>>, <<"rep", 65, BigLen>>}

ExtraBytes == {Take(Rep(b, n), n) : b \in {0, 49}, n \in 0..MaxExtra}

\* total payload sizes of containers too large to be built entry by entry:
\* around 2^32 bytes, where the widths 4 and 8 part, and 2^33
LargeSizes ==
    {<<255, UsizeHuge - d>> : d \in {16, 17, 18, 21, 22, 4, 5, 6}}
    \cup {<<256, 0>>, <<512, 0>>}

\* compact arrays and objects: the vectors of tests::array_compact, an
\* object of one pair, and an array of eight items
CompactCases ==
    {<<ty, <<19, 6, 49, 50, 51, 3>> >> : ty \in {<<"seq", <<"u8">> >>, <<"any">>}}
    \cup {<<ty, <<19, 6, 49, 40, 16, 2>> >> : ty \in {<<"seq", <<"u8">> >>, <<"any">>}}
    \cup {<<ty, <<20, 6, 65, 97, 49, 1>> >> :
              ty \in {<<"map", <<"str">>, <<"i64">> >>, <<"any">>}}
    \cup {<<ty, <<19, 11, 49, 50, 51, 52, 53, 54, 55, 56, 8>> >> :
              ty \in {<<"seq", <<"u8">> >>, <<"any">>}}

\* what follows the leading byte in the inputs of deserialize_any: nothing,
\* a byte length 3 and the item 1, eight bytes, or 127 bytes
AnyTails == {<<>>, <<3, 49>>, Rep(97, 8), Rep(97, 127)}

\* every leading byte, at a type that leaves the kind to the input
AnyCases == {<<(<<"any">>), <<b>> \o t>> : b \in 0..255, t \in AnyTails}

\* inputs that end before the value does: the empty input, a 2-byte
\* unsigned and a 2-byte signed integer with one byte, a double with one
\* byte, a 2-byte string with one byte, a long string with a short length
\* field, an indexed array with no byte length, with no item count, and
\* with no index table, and an object with no index table
TruncatedCases ==
    {<<ty, <<>> >> : ty \in {<<"i64">>, <<"u64">>, <<"f64">>, <<"str">>, <<"bool">>,
                             <<"unit">>, <<"seq", <<"i64">> >>,
                             <<"map", <<"str">>, <<"i64">> >>, <<"any">>}}
    \cup {<<(<<"u64">>), <<41, 0>> >>, <<(<<"i64">>), <<33, 0>> >>,
          <<(<<"f64">>), <<27, 0>> >>, <<(<<"str">>), <<66, 97>> >>,
          <<(<<"str">>), <<191, 1, 0>> >>,
          <<(<<"seq", <<"i64">> >>), <<6>> >>,
          <<(<<"seq", <<"i64">> >>), <<6, 5>> >>,
          <<(<<"seq", <<"i64">> >>), <<6, 5, 1, 49>> >>,
          <<(<<"map", <<"str">>, <<"i64">> >>), <<11, 7, 1, 65, 97, 49>> >>}

\* integers stored in 1..8 bytes with a signed tag (0x20..0x27) or an
\* unsigned tag (0x28..0x2f), and the small integers 0x30..0x3f
StoredInts ==
    {<<tag + k>> \o [j \in 1..k |-> IF j = k THEN t ELSE f] :
        tag \in {31, 39}, k \in 1..8, f \in Fill, t \in {0, 1, 127, 128, 255}}
    \cup {<<b>> : b \in 48..63}

\* a stored integer asked for at a narrower integer type, and at i64 when
\* its tag is an unsigned one
NarrowCases ==
    {<<(<<ty>>), s>> : ty \in IntTypes \ {"i64", "u64"}, s \in StoredInts}
    \cup {<<(<<"i64">>), s>> : s \in {t \in StoredInts : t[1] \in 40..57}}

\* containers of 8-byte width holding 1 and "a" (array 0x09) or the pair
\* "a": 1 (objects 0x0e and 0x12): type byte, byte length, entries, index
\* table, and the item count in the last 8 bytes
TailCountCases ==
    {<<ty, <<9>> \o to_le_bytes(36, 8) \o <<49, 65, 97>>
               \o to_le_bytes(9, 8) \o to_le_bytes(10, 8) \o to_le_bytes(2, 8)>> :
        ty \in {<<"seq", <<"any">> >>, <<"any">>}}
    \cup {<<ty, <<tag>> \o to_le_bytes(28, 8) \o <<65, 97, 49>>
                  \o to_le_bytes(9, 8) \o to_le_bytes(1, 8)>> :
             ty \in {<<"map", <<"str">>, <<"i64">> >>, <<"any">>}, tag \in {14, 18}}

\* an equal-length array of tag 0x02..0x05 written by hand: the byte length
\* in the tag's width, p padding bytes, and the bytes of the elements
equal_length_array(tag, p, payload) ==
    LET W == CASE tag = 2 -> 1 [] tag = 3 -> 2 [] tag = 4 -> 4 [] tag = 5 -> 8
    IN <<tag>> \o to_le_bytes(1 + W + p + Len(payload), W) \o Take(Rep(0, p), p) \o payload

\* equal-length arrays of 1, 2, 3 (elements of one byte) and of 256, 256
\* (elements of three bytes), after 0..MaxPad padding bytes
EqualLengthCases ==
    {<<(<<"seq", <<"u64">> >>), equal_length_array(tag, p, payload)>> :
        tag \in 2..5, p \in 0..MaxPad,
        payload \in {<<49, 50, 51>>, <<41, 0, 1, 41, 0, 1>>}}

\* equal-length arrays whose payload of 4 or 5 bytes is not a multiple of
\* the size 3 of the first element 256
UnevenCases ==
    {<<ty, equal_length_array(tag, 0, payload)>> :
        ty \in {<<"seq", <<"u64">> >>, <<"any">>}, tag \in 2..5,
        payload \in {<<41, 0, 1, 49>>, <<41, 0, 1, 49, 50>>}}

\* an indexed array of tag 0x06..0x09 written by hand: byte length, item
\* count (after the index table for 0x09), p padding bytes, the elements
\* and the index table of their offsets
indexed_array(tag, p, elems) ==
    LET W == CASE tag = 6 -> 1 [] tag = 7 -> 2 [] tag = 8 -> 4 [] tag = 9 -> 8
        n == Len(elems)
        first == IF tag = 9 THEN 1 + W + p ELSE 1 + 2 * W + p
        count == to_le_bytes(n, W)
    IN <<tag>> \o to_le_bytes(1 + 2 * W + p + SumLen(elems) + n * W, W)
             \o (IF tag = 9 THEN <<>> ELSE count)
             \o Take(Rep(0, p), p)
             \o Concat(elems)
             \o index_table(entry_offsets([i \in 1..n |-> Len(elems[i])], first), W)
             \o (IF tag = 9 THEN count ELSE <<>>)

\* arrays asked for as Vec<u64> in which the element 0x18 (null) fails with
\* ExpectedInteger: as the first and as the second element of an
\* equal-length array, of an indexed array and of a compact array
FailingElementCases ==
    {<<(<<"seq", <<"u64">> >>), bytes>> :
        bytes \in {equal_length_array(tag, 0, payload) :
                      tag \in 2..5, payload \in {<<24>>, <<49, 24>>}}
                 \cup {indexed_array(tag, 0, elems) :
                          tag \in 6..9, elems \in {<< <<24>>, <<41, 0, 1>> >>,
                                                    << <<41, 0, 1>>, <<24>> >>}}
                 \cup {<<19, 4, 24, 1>>, <<19, 5, 49, 24, 2>>}}

\* the indexed array of 1 and 256 (the first vector of
\* tests::array_with_index) in each of the four widths, after 0..MaxPad
\* padding bytes
PaddedCases ==
    {<<(<<"seq", <<"u64">> >>), indexed_array(tag, p, << <<49>>, <<41, 0, 1>> >>)>> :
        tag \in 6..9, p \in 0..MaxPad}

\* the scalar types, each on a null, a boolean, a double, an integer of
\* each sign, a string, an empty array and an unassigned tag, followed by
\* more input
ScalarTypes == {"bool", "f64", "u64", "i64", "u8", "str", "unit"}

ScalarCases ==
    {<<(<<ty>>), head \o tail>> :
        ty \in ScalarTypes,
        head \in {<<24>>, <<25>>, <<27, 0, 0, 0, 0, 0, 0, 240, 63>>, <<49>>, <<32, 251>>,
                  <<65, 97>>, <<1>>, <<0>>, <<192, 1>>},
        tail \in {<<>>, <<49, 49>>}}

\* the <<type, input>> pairs Deserialize is called with
DecodeCases ==
    CompactCases \cup AnyCases \cup TruncatedCases \cup NarrowCases \cup TailCountCases
        \cup EqualLengthCases \cup UnevenCases \cup FailingElementCases \cup PaddedCases
        \cup ScalarCases

\* the type a value is decoded at: its own, and <<"any">> for the
\* elements of an array or object whose entries differ in type
RECURSIVE NaturalTy(_)
NaturalTy(v) ==
    CASE v[1] = "int" -> <<v[2]>>
      [] v[1] = "rep" -> <<"str">>
      [] v[1] = "seq" ->
            LET ts == {NaturalTy(v[2][i]) : i \in 1..Len(v[2])}
            IN IF Cardinality(ts) = 1
               THEN <<"seq", CHOOSE t \in ts : TRUE>>
               ELSE <<"seq", <<"any">> >>
      [] v[1] = "map" ->
            LET ts == {NaturalTy(v[2][i][2]) : i \in 1..Len(v[2])}
            IN IF Cardinality(ts) = 1
               THEN <<"map", <<"str">>, CHOOSE t \in ts : TRUE>>
               ELSE <<"map", <<"str">>, <<"any">> >>
      [] OTHER -> <<v[1]>>

Wide(ty) == IF ty \in SignedTypes THEN "i64" ELSE "u64"

DecodeTypes(v) ==
    IF v[1] = "int" THEN {<<v[2]>>, <<Wide(v[2])>>} ELSE {NaturalTy(v)}

\* the value v as a value of type ty: an integer converted to the integer
\* type ty, and at <<"any">> to u64 when it is not negative and to i64 when
\* it is; a string as its bytes
RECURSIVE AsType(_, _)
AsType(ty, v) ==
    CASE v[1] = "int" ->
            LET t == IF ty[1] = "any"
                     THEN (IF v[2] \in SignedTypes /\ IsNeg(v[3]) THEN "i64" ELSE "u64")
                     ELSE ty[1]
            IN <<"int", t,
                 IF v[2] \in SignedTypes THEN SignExtend(v[3], Width(t))
                                         ELSE ZeroExtend(v[3], Width(t))>>
      [] v[1] = "rep" -> <<"str", as_bytes(v)>>
      [] v[1] = "seq" ->
            <<"seq", [i \in 1..Len(v[2]) |->
                        AsType(IF ty[1] = "any" THEN ty ELSE ty[2], v[2][i])]>>
      [] v[1] = "map" ->
            <<"map", [i \in 1..Len(v[2]) |->
                        <<v[2][i][1],
                          AsType(IF ty[1] = "any" THEN ty ELSE ty[3], v[2][i][2])>>]>>
      [] OTHER -> v

\* ------------------------------------------------------------------------
\* State
\* ------------------------------------------------------------------------
VARIABLES
    overflow_checks,  \* the build panics on integer overflow (debug profile)
    output,           \* Serializer.output
    phase,            \* "start", "seq" (ArraySerializer open), "map"
                      \* ("seq2", "map2", "done2": the same for a second value)
                      \* (MapSerializer open), "done", "decoded"
    items,            \* ArraySerializer.items
    keys,             \* MapSerializer.keys
    values,           \* MapSerializer.values
    arg,              \* the value serialized: the elements, keys and values
                      \* accepted so far while a container is open
    ser_st,           \* the outcome of the last Serializer call
    de_call,          \* "from_bytes", "first_from_bytes", or "deserialize"
                      \* for T::deserialize on a Deserializer::from_bytes
    de_ty,            \* the type asked for
    de_extra,         \* the bytes that follow the encoded value in the input;
                      \* the whole input when no value was encoded
    de_result         \* the result of the call

vars == <<overflow_checks, output, phase, items, keys, values, arg, ser_st,
          de_call, de_ty, de_extra, de_result>>

de_vars == <<de_call, de_ty, de_extra, de_result>>

\* the bytes a decode call is made on
de_input == output \o de_extra

builder_vars == <<items, keys, values>>

Init ==
    /\ overflow_checks \in BOOLEAN
    /\ output = <<>>
    /\ phase = "start"
    /\ items = <<>>
    /\ keys = <<>>
    /\ values = <<>>
    /\ arg = NoValue
    /\ ser_st = "ok"
    /\ de_call = ""
    /\ de_ty = NoValue
    /\ de_extra = <<>>
    /\ de_result = Ok(NoValue, <<>>)

\* ------------------------------------------------------------------------
\* Serializer calls
\* ------------------------------------------------------------------------
\* a scalar value.serialize(&mut serializer)
Scalar(v) ==
    /\ phase = "start"
    /\ output' = output \o serialize(v, overflow_checks).bytes
    /\ ser_st' = serialize(v, overflow_checks).st
    /\ arg' = v
    /\ phase' = "done"
    /\ UNCHANGED <<overflow_checks, builder_vars, de_vars>>

SerializeInt == \E v \in IntValues : Scalar(v)

SerializeStr == \E v \in StrValues : Scalar(v)

SerializeBool == \E b \in BOOLEAN : Scalar(<<"bool", b>>)

SerializeUnit == Scalar(<<"unit">>)

\* the byte slices handed to serialize_bytes
BytesValues == {<<>>, <<7>>, <<7, 8, 9>>, Take(Rep(7, 256), 256)}

SerializeBytes == \E v \in BytesValues : Scalar(<<"bytes", v>>)

SerializeF64 ==
    \E bits \in {<<0, 0, 0, 0, 0, 0, 0, 0>>, <<0, 0, 0, 0, 0, 0, 240, 63>>} :
        Scalar(<<"f64", bits>>)

\* a Serializer is used for one value, or for a second one after a null
\* (serialize_unit) has been written to its output: the phases of the
\* second value are "seq2", "map2" and "done2"
Reused == phase = "done" /\ arg = <<"unit">> /\ ser_st = "ok"

SerializeSeq ==
    /\ phase = "start" \/ Reused
    /\ phase' = IF phase = "start" THEN "seq" ELSE "seq2"
    /\ items' = <<>>
    /\ arg' = <<"seq", <<>> >>
    /\ ser_st' = "ok"
    /\ UNCHANGED <<overflow_checks, output, keys, values, de_vars>>

\* an element serializer that streams the element to the output
SerializeElementStreaming ==
    /\ phase \in {"seq", "seq2"}
    /\ Len(items) < MaxItems
    /\ \E v \in ElemValues :
          LET r == serialize(v, overflow_checks)
          IN /\ SumLen(items) + Len(r.bytes) <= MaxBytes
             /\ ser_st' = r.st
             /\ items' = IF r.st = "ok" THEN Append(items, r.bytes) ELSE items
             /\ output' = IF r.st = "ok" THEN output \o r.bytes ELSE output
             /\ arg' = IF r.st = "ok" THEN <<"seq", Append(arg[2], v)>> ELSE arg
    /\ UNCHANGED <<overflow_checks, phase, keys, values, de_vars>>

SerializeElement ==
    /\ phase \in {"seq", "seq2"}
    /\ Len(items) < MaxItems
    /\ \E v \in ElemValues :
          LET r == serialize(v, overflow_checks)
          IN /\ SumLen(items) + Len(r.bytes) <= MaxBytes
             /\ ser_st' = r.st
             /\ items' = IF r.st = "ok" THEN Append(items, r.bytes) ELSE items
             /\ arg' = IF r.st = "ok" THEN <<"seq", Append(arg[2], v)>> ELSE arg
    /\ UNCHANGED <<overflow_checks, output, phase, keys, values, de_vars>>

EndArray ==
    /\ phase \in {"seq", "seq2"}
    /\ LET r == end_array(items, overflow_checks)
       IN /\ output' = output \o r.bytes
          /\ ser_st' = r.st
    /\ items' = <<>>
    /\ phase' = IF phase = "seq" THEN "done" ELSE "done2"
    /\ UNCHANGED <<overflow_checks, keys, values, arg, de_vars>>

SerializeMap ==
    /\ phase = "start" \/ Reused
    /\ phase' = IF phase = "start" THEN "map" ELSE "map2"
    /\ keys' = <<>>
    /\ values' = <<>>
    /\ arg' = <<"map", <<>>, <<>> >>
    /\ ser_st' = "ok"
    /\ UNCHANGED <<overflow_checks, output, items, de_vars>>

SerializeKey ==
    /\ phase \in {"map", "map2"}
    /\ Len(keys) < MaxPairs
    /\ \E k \in KeyValues :
          LET r == serialize_map_key(serialize(k, overflow_checks))
          IN /\ SumLen(keys) + SumLen(values) + Len(r.bytes) <= MaxBytes
             /\ ser_st' = r.st
             /\ keys' = IF r.st = "ok" THEN Append(keys, r.bytes) ELSE keys
             /\ arg' = IF r.st = "ok" THEN <<"map", Append(arg[2], k), arg[3]>> ELSE arg
    /\ UNCHANGED <<overflow_checks, output, phase, items, values, de_vars>>

SerializeValue ==
    /\ phase \in {"map", "map2"}
    /\ Len(values) < MaxPairs
    /\ \E v \in MapValues :
          LET r == serialize(v, overflow_checks)
          IN /\ SumLen(keys) + SumLen(values) + Len(r.bytes) <= MaxBytes
             /\ ser_st' = r.st
             /\ values' = IF r.st = "ok" THEN Append(values, r.bytes) ELSE values
             /\ arg' = IF r.st = "ok" THEN <<"map", arg[2], Append(arg[3], v)>> ELSE arg
    /\ UNCHANGED <<overflow_checks, output, phase, items, keys, de_vars>>

\* SerializeStruct::serialize_field: the key, then the value unless the key
\* was rejected
SerializeField ==
    /\ phase \in {"map", "map2"}
    /\ Len(keys) < MaxPairs
    /\ Len(values) < MaxPairs
    /\ \E k \in KeyValues, v \in MapValues :
          LET rk == serialize_map_key(serialize(k, overflow_checks))
              rv == serialize(v, overflow_checks)
          IN /\ SumLen(keys) + SumLen(values) + Len(rk.bytes) + Len(rv.bytes)
                   <= MaxBytes
             /\ IF rk.st # "ok"
                THEN /\ ser_st' = rk.st
                     /\ UNCHANGED <<keys, values, arg>>
                ELSE /\ keys' = Append(keys, rk.bytes)
                     /\ ser_st' = rv.st
                     /\ values' = IF rv.st = "ok" THEN Append(values, rv.bytes)
                                  ELSE values
                     /\ arg' = <<"map", Append(arg[2], k),
                                 IF rv.st = "ok" THEN Append(arg[3], v) ELSE arg[3]>>
    /\ UNCHANGED <<overflow_checks, output, phase, items, de_vars>>

EndMap ==
    /\ phase \in {"map", "map2"}
    /\ LET r == end_map(keys, values, overflow_checks)
       IN /\ output' = output \o r.bytes
          /\ ser_st' = r.st
    /\ keys' = <<>>
    /\ values' = <<>>
    /\ phase' = IF phase = "map" THEN "done" ELSE "done2"
    /\ UNCHANGED <<overflow_checks, items, arg, de_vars>>

\* ------------------------------------------------------------------------
\* Deserializer calls, on the serializer's output followed by extra bytes
\* ------------------------------------------------------------------------
\* the object serialized, as the sequence of its <<key, value>> pairs
ArgValue ==
    IF arg[1] = "map"
    THEN <<"map", [i \in 1..Len(arg[2]) |-> <<arg[2][i], arg[3][i]>>]>>
    ELSE arg

Decodable ==
    /\ phase = "done"
    /\ ser_st = "ok"
    /\ arg[1] # "bytes"
    /\ arg[1] = "map" => Len(arg[2]) = Len(arg[3])

FromBytes ==
    /\ Decodable
    /\ \E ty \in DecodeTypes(ArgValue), extra \in ExtraBytes :
          /\ de_ty' = ty
          /\ de_extra' = extra
          /\ de_result' = from_bytes(ty, output \o extra, overflow_checks)
    /\ de_call' = "from_bytes"
    /\ phase' = "decoded"
    /\ UNCHANGED <<overflow_checks, output, builder_vars, arg, ser_st>>

FirstFromBytes ==
    /\ Decodable
    /\ \E ty \in DecodeTypes(ArgValue), extra \in ExtraBytes :
          /\ de_ty' = ty
          /\ de_extra' = extra
          /\ de_result' = first_from_bytes(ty, output \o extra, overflow_checks)
    /\ de_call' = "first_from_bytes"
    /\ phase' = "decoded"
    /\ UNCHANGED <<overflow_checks, output, builder_vars, arg, ser_st>>

\* end_array / end_map of a container known by the number of its entries
\* and their total size only: "equal" an array of one element, "array" one
\* of elements of different lengths, "object" an object.  The output is
\* what the call writes before the payload.
EndLarge ==
    /\ phase = "start"
    /\ \E kind \in {"equal", "array", "object"}, item_size \in LargeSizes, n_items \in 1..3 :
          LET n_bytes == IF kind = "equal" THEN 1
                         ELSE width_search(item_size, n_items, overflow_checks)
          IN /\ kind = "equal" => n_items = 1
             /\ kind = "array" => n_items >= 2
             /\ arg' = <<"large", kind, item_size, n_items>>
             /\ ser_st' = IF n_bytes < 0 THEN "panic" ELSE "ok"
             /\ output' = CASE kind = "equal" -> equal_length_header(item_size)
                            [] kind = "array" ->
                                 write_header(array_tag(n_bytes), n_bytes, item_size, n_items)
                            [] kind = "object" ->
                                 write_header(object_tag(n_bytes), n_bytes, item_size, n_items)
    /\ phase' = "header"
    /\ UNCHANGED <<overflow_checks, builder_vars, de_vars>>

\* T::deserialize(&mut Deserializer::from_bytes(input)) on bytes that were
\* not produced by the Serializer of the model: the result and the
\* cursor's remaining input
Deserialize ==
    /\ phase = "start"
    /\ \E c \in DecodeCases :
          /\ de_ty' = c[1]
          /\ de_extra' = c[2]
          /\ de_result' = deserialize(c[1], c[2], overflow_checks)
    /\ de_call' = "deserialize"
    /\ phase' = "parsed"
    /\ UNCHANGED <<overflow_checks, output, builder_vars, arg, ser_st>>

Next ==
    \/ SerializeInt
    \/ SerializeStr
    \/ SerializeBool
    \/ SerializeUnit
    \/ SerializeBytes
    \/ SerializeF64
    \/ SerializeSeq
    \/ SerializeElement
    \/ EndArray
    \/ SerializeMap
    \/ SerializeKey
    \/ SerializeValue
    \/ SerializeField
    \/ EndMap
    \/ FromBytes
    \/ FirstFromBytes
    \/ Deserialize
    \/ EndLarge

Spec == Init /\ [][Next]_vars

\* ------------------------------------------------------------------------
\* Properties
\* ------------------------------------------------------------------------
IsInt == arg[1] = "int"

IsStr == arg[1] \in {"str", "rep"}

\* the integer serialized, widened to 64 bits
Arg64 ==
    IF arg[2] \in SignedTypes THEN SignExtend(arg[3], 8) ELSE ZeroExtend(arg[3], 8)

ArgNegative == IsInt /\ arg[2] \in SignedTypes /\ IsNeg(arg[3])

ArgNonNegative == IsInt /\ ~ArgNegative

Encoded == phase \in {"done", "decoded"} /\ ser_st = "ok"

\* the smallest byte count whose two's-complement range contains d8
MinSignedBytes(d8) ==
    CHOOSE n \in 1..8 : FitsSigned(d8, n) /\ \A m \in 1..(n - 1) : ~FitsSigned(d8, m)

\* the smallest byte count n with d8 < 2^(8n)
MinUnsignedBytes(d8) ==
    CHOOSE n \in 1..8 : FitsUnsigned(d8, n) /\ \A m \in 1..(n - 1) : ~FitsUnsigned(d8, m)

DecodedBy(call) == phase = "decoded" /\ de_call = call

\* C1: for every i64 or u64 v, from_bytes at the same type of the bytes
\* to_bytes produced for v returns v.
C1_IntRoundTrip ==
    (DecodedBy("from_bytes") /\ IsInt /\ arg[2] \in {"i64", "u64"}
        /\ de_ty = <<arg[2]>> /\ de_extra = <<>>)
    => (de_result.st = "ok" /\ de_result.v = arg)

\* C2: a negative v in -6..-1 is the single byte 0x40+v; any other
\* negative v is the tag 0x20+(n-1) and the n low-order little-endian bytes
\* of v, n the smallest byte count whose two's-complement range holds v.
C2_NegativeIntEncoding ==
    (Encoded /\ ArgNegative)
    => IF FitsSigned(Arg64, 1) /\ Arg64[1] >= 250
       THEN output = <<64 - (256 - Arg64[1])>>
       ELSE output = <<32 + (MinSignedBytes(Arg64) - 1)>>
                        \o Take(Arg64, MinSignedBytes(Arg64))

\* C3: a non-negative v of any integer type is the single byte 0x30+v when
\* v <= 9, and otherwise the tag 0x28+(n-1) and the n low-order
\* little-endian bytes of v, n the smallest byte count with v < 2^(8n).
C3_NonNegativeIntEncoding ==
    (Encoded /\ ArgNonNegative)
    => IF FitsUnsigned(Arg64, 1) /\ Arg64[1] <= 9
       THEN output = <<48 + Arg64[1]>>
       ELSE output = <<40 + (MinUnsignedBytes(Arg64) - 1)>>
                        \o Take(Arg64, MinUnsignedBytes(Arg64))

C3_Witness ==
    /\ Encoded /\ ArgNonNegative
    /\ MinUnsignedBytes(Arg64) = 3
    /\ output[1] = 42

\* C4: for every k in 0..7 the tag 0x20+k followed by k+1 bytes decodes to
\* the two's-complement little-endian value of those bytes sign-extended to
\* 64 bits.
C4_SignedDecode ==
    (DecodedBy("from_bytes") /\ de_ty = <<"i64">> /\ de_extra = <<>>
        /\ output[1] \in 32..39 /\ Len(output) = output[1] - 30)
    => /\ de_result.st = "ok"
       /\ de_result.v = <<"int", "i64", SignExtend(Drop(output, 1), 8)>>

\* C5: a string of n UTF-8 bytes is the tag 0x40+n and the bytes when
\* n <= 126, and 0xbf, n as 8 little-endian bytes and the bytes when
\* n >= 127; from_bytes of that output returns the string.
C5_StringEncoding ==
    (Encoded /\ IsStr)
    => LET n == Len(as_bytes(arg))
       IN /\ n <= 126 => output = <<64 + n>> \o as_bytes(arg)
          /\ n >= 127 =>
                /\ Len(output) = 9 + n
                /\ output[1] = 191
                /\ output[2] + 256 * output[3] + 65536 * output[4] = n
                /\ \A j \in 5..9 : output[j] = 0
                /\ Drop(output, 9) = as_bytes(arg)
          /\ (DecodedBy("from_bytes") /\ de_extra = <<>>)
                => (de_result.st = "ok" /\ de_result.v = <<"str", as_bytes(arg)>>)

C5_Witness ==
    /\ DecodedBy("from_bytes") /\ de_extra = <<>>
    /\ IsStr /\ Len(as_bytes(arg)) = 127
    /\ output[1] = 191
    /\ de_result.st = "ok"

DistinctKeys ==
    arg[1] = "map" => \A i, j \in 1..Len(arg[2]) : arg[2][i] = arg[2][j] => i = j

\* C6: for every array and every string-keyed object of values that
\* round-trip, from_bytes(to_bytes(x)) = x, with the same elements in the
\* same order and no trailing bytes.
C6_ContainerRoundTrip ==
    (DecodedBy("from_bytes") /\ arg[1] \in {"seq", "map"} /\ DistinctKeys
        /\ de_extra = <<>>)
    => /\ de_result.st = "ok"
       /\ de_result.v = AsType(de_ty, ArgValue)
       /\ de_result.input = <<>>

\* C7: on one complete encoded value followed by n >= 1 extra bytes
\* from_bytes returns TrailingBytes(n) and first_from_bytes returns the
\* value and exactly those n bytes; with n = 0 from_bytes returns the value.
C7_TrailingBytes ==
    /\ (DecodedBy("from_bytes") /\ DistinctKeys /\ Len(de_extra) >= 1)
          => (de_result.st = "err" /\ de_result.err = "TrailingBytes"
                /\ de_result.n = Len(de_extra))
    /\ (DecodedBy("from_bytes") /\ DistinctKeys /\ de_extra = <<>>)
          => (de_result.st = "ok" /\ de_result.v = AsType(de_ty, ArgValue))
    /\ (DecodedBy("first_from_bytes") /\ DistinctKeys)
          => (de_result.st = "ok" /\ de_result.v = AsType(de_ty, ArgValue)
                /\ de_result.input = de_extra)

\* the width of the fields of a container, from its type byte
TagWidth(tag) ==
    CASE tag \in {2, 6, 11} -> 1
      [] tag \in {3, 7, 12} -> 2
      [] tag \in {4, 8, 13} -> 4
      [] tag \in {5, 9, 14} -> 8

NonEmptyContainer ==
    /\ Encoded
    /\ arg[1] \in {"seq", "map"}
    /\ arg[2] # <<>>
    /\ output # <<>>

\* C8: in every non-empty array or object emitted, whatever its width, the
\* byte-length field of the header equals the number of bytes the
\* container occupies in the output.
C8_ByteLength ==
    NonEmptyContainer
    => from_le_bytes(SubSeq(output, 2, 1 + TagWidth(output[1]))) = Len(output)

ClosesArray == phase = "seq" /\ phase' = "done" /\ ser_st' = "ok"

SameLength == \A i, j \in 1..Len(items) : Len(items[i]) = Len(items[j])

C9_WitnessIndexed ==
    /\ phase = "done" /\ ser_st = "ok"
    /\ arg[1] = "seq" /\ Len(arg[2]) = 2
    /\ output[1] = 7

ClosesMap == phase = "map" /\ phase' = "done" /\ ser_st' = "ok" /\ keys # <<>>

\* C10: in every non-empty object emitted, the index-table entries, read in
\* order, are the start offsets of the entries taken in ascending
\* lexicographic order of the keys' encoded bytes, tag included, whatever
\* order the keys were provided in.
C10_IndexOrder ==
    [][ClosesMap =>
        LET out == output'
            n == Len(keys)
            W == TagWidth(out[1])
            starts == entry_offsets([i \in 1..n |-> Len(keys[i]) + Len(values[i])],
                                    1 + 2 * W)
            at(r) == from_le_bytes(SubSeq(out, Len(out) - (n - r + 1) * W + 1,
                                          Len(out) - (n - r) * W))
            key(r) == keys[CHOOSE i \in 1..n : starts[i] = at(r)]
        IN /\ \A r \in 1..n : \E i \in 1..n :
                 /\ starts[i] = at(r)
                 /\ SubSeq(out, at(r) + 1, at(r) + Len(keys[i])) = keys[i]
           /\ \A i \in 1..n : \E r \in 1..n : starts[i] = at(r)
           /\ \A r \in 1..(n - 1) : ~LexLess(key(r + 1), key(r))
    ]_vars

C10_Witness ==
    /\ phase = "done" /\ ser_st = "ok"
    /\ arg[1] = "map" /\ Len(arg[2]) = 2 /\ Len(arg[3]) = 2
    /\ arg[2][1] = <<"str", <<98>> >>
    /\ arg[2][2] = <<"str", <<97>> >>
    /\ output[1] = 11
    /\ output[Len(output) - 1] > output[Len(output)]

\* the string a key's encoding carries, without its tag and length
KeyContent(k) == IF k[1] = 191 THEN Drop(k, 9) ELSE Drop(k, 1)

\* C11: in every object emitted, the keys that successive index-table
\* entries reference are in non-decreasing lexicographic order of the key
\* strings themselves (the contents, without the tag), also when the keys
\* differ in length.
C11_KeyContentOrder ==
    [][ClosesMap =>
        LET out == output'
            n == Len(keys)
            W == TagWidth(out[1])
            starts == entry_offsets([i \in 1..n |-> Len(keys[i]) + Len(values[i])],
                                    1 + 2 * W)
            at(r) == from_le_bytes(SubSeq(out, Len(out) - (n - r + 1) * W + 1,
                                          Len(out) - (n - r) * W))
            key(r) == keys[CHOOSE i \in 1..n : starts[i] = at(r)]
        IN \A r \in 1..(n - 1) :
              ~LexLess(KeyContent(key(r + 1)), KeyContent(key(r)))
    ]_vars

\* C12: the payload of every array and object emitted holds the elements,
\* and for objects each key directly followed by its value, in the order
\* they were provided to the builder, whatever the order of the index
\* table.
C12_PayloadOrder ==
    [][/\ (ClosesArray /\ items # <<>>) =>
            LET out == output'
                W == TagWidth(out[1])
                start == IF out[1] \in 2..5 THEN 1 + W ELSE 1 + 2 * W
            IN SubSeq(out, start + 1, start + SumLen(items)) = Concat(items)
       /\ ClosesMap =>
            LET out == output'
                W == TagWidth(out[1])
                n == Len(keys)
            IN SubSeq(out, 2 + 2 * W, 1 + 2 * W + SumLen(keys) + SumLen(values))
                 = Concat([i \in 1..n |-> keys[i] \o values[i]])
    ]_vars

C12_Witness ==
    /\ phase = "done" /\ ser_st = "ok"
    /\ arg[1] = "map" /\ Len(arg[2]) = 2 /\ Len(arg[3]) = 2
    /\ arg[2][1] = <<"str", <<98>> >>
    /\ arg[2][2] = <<"str", <<97>> >>
    /\ arg[3][1] = One /\ arg[3][2] = One
    /\ output = <<11, 11, 2, 65, 98, 49, 65, 97, 49, 6, 3>>

\* a call of T::deserialize on one of the hand-written inputs has returned
Parsed(cases) == phase = "parsed" /\ <<de_ty, de_input>> \in cases

\* C13: a compact array (0x13) or compact object (0x14) decodes to exactly
\* as many elements (pairs) as the reverse varint at its tail says; the
\* sample containers hold fewer than 128 items, so that varint is their
\* last byte
C13_CompactCount ==
    Parsed(CompactCases) =>
        /\ de_result.st = "ok"
        /\ Len(de_result.v[2]) = de_input[Len(de_input)]

\* C14: when the caller leaves the kind to the input, a leading byte of the
\* tag table (0x01..0x09, 0x13 array; 0x0a..0x12, 0x14 object; 0x18 null;
\* 0x19, 0x1a boolean; 0x1b double; 0x20..0x27, 0x3a..0x3f signed;
\* 0x28..0x39 unsigned; 0x40..0xbf string) is decoded as its variant, and
\* any other leading byte b gives Unimplemented(b) and nothing else
C14_AnyDispatch ==
    Parsed(AnyCases) =>
        LET b == de_input[1]
            TagVariant ==
                IF b \in (1..9) \cup {19} THEN <<"seq", <<"any">> >>
                ELSE IF b \in (10..18) \cup {20} THEN <<"map", <<"str">>, <<"any">> >>
                ELSE IF b = 24 THEN <<"unit">>
                ELSE IF b \in {25, 26} THEN <<"bool">>
                ELSE IF b = 27 THEN <<"f64">>
                ELSE IF b \in (32..39) \cup (58..63) THEN <<"i64">>
                ELSE IF b \in 40..57 THEN <<"u64">>
                ELSE IF b \in 64..191 THEN <<"str">>
                ELSE NoValue
        IN IF TagVariant = NoValue
           THEN /\ de_result.st = "err"
                /\ de_result.err = "Unimplemented"
                /\ de_result.n = b
           ELSE de_result = deserialize(TagVariant, de_input, overflow_checks)

C14_Witness ==
    /\ Parsed(AnyCases)
    /\ de_input = <<192, 3, 49>>
    /\ de_result.st = "err" /\ de_result.err = "Unimplemented" /\ de_result.n = 192

C14_WitnessArray ==
    /\ Parsed(AnyCases)
    /\ de_input = <<2, 3, 49>>
    /\ de_result.st = "ok"
    /\ de_result.v = <<"seq", << <<"int", "u64", <<1, 0, 0, 0, 0, 0, 0, 0>> >> >> >>

\* C15: a decode that needs more bytes than the input has left returns
\* the error Eof to its caller; it does not abort
C15_EofOnTruncated ==
    Parsed(TruncatedCases) => de_result.st = "err" /\ de_result.err = "Eof"

\* C16: an integer asked for at a narrower type (i8, i16, i32, u8, u16,
\* u32, or a signed type when it is stored with an unsigned tag) is
\* returned unchanged when its 64-bit value fits the type, and is the
\* error NumberTooLarge when it does not
C16_Narrowing ==
    Parsed(NarrowCases) =>
        LET b == de_input[1]
            ty == de_ty[1]
            w == Width(ty)
            signed == b \in (32..39) \cup (58..63)
            v == IF b \in 48..57 THEN ZeroExtend(<<b - 48>>, 8)
                 ELSE IF b \in 58..63 THEN SignExtend(<<192 + b>>, 8)
                 ELSE IF signed THEN SignExtend(Drop(de_input, 1), 8)
                 ELSE ZeroExtend(Drop(de_input, 1), 8)
            fits == IF signed
                    THEN IF ty \in SignedTypes THEN FitsSigned(v, w)
                         ELSE ~IsNeg(v) /\ FitsUnsigned(v, w)
                    ELSE IF ty \in SignedTypes THEN FitsUnsignedInSigned(v, w)
                         ELSE FitsUnsigned(v, w)
        IN IF fits
           THEN de_result.st = "ok" /\ de_result.v = <<"int", ty, Take(v, w)>>
           ELSE de_result.st = "err" /\ de_result.err = "NumberTooLarge"

\* C17: a call that adds a key to an object (a step of the open object
\* that leaves its values alone) either appends one encoding that starts
\* with a string tag 0x40..0xbf, or returns an error and leaves the keys as
\* they were; in both cases it writes nothing to the output buffer.  So a
\* key whose encoding starts with any other tag is rejected with an error
\* and is not added.
C17_NonStringKey ==
    [][(phase = "map" /\ phase' = "map" /\ values' = values) =>
        /\ output' = output
        /\ \/ /\ ser_st' = "err"
              /\ keys' = keys
           \/ /\ ser_st' = "ok"
              /\ Len(keys') = Len(keys) + 1
              /\ SubSeq(keys', 1, Len(keys)) = keys
              /\ keys'[Len(keys')][1] \in 64..191
    ]_vars

C17_Witness ==
    /\ phase = "map" /\ ser_st = "err"
    /\ keys = << <<65, 97>> >> /\ values = << <<49>> >> /\ output = <<>>

\* C18: closing a non-empty array or object writes a container: the width
\* search accepts one of the widths 1, 2, 4, 8 (the width 8 when no smaller
\* one admits the payload) without failing
C18_WidthAccepted ==
    /\ (Encoded /\ arg[1] \in {"seq", "map"} /\ arg[2] # <<>>) =>
            (output # <<>> /\ TagWidth(output[1]) \in {1, 2, 4, 8})
    /\ phase = "header" =>
            /\ ser_st = "ok"
            /\ output # <<>>
            /\ TagWidth(output[1]) \in {1, 2, 4, 8}

\* C19: the width W of a container the encoder emits is the smallest of
\* 1, 2, 4, 8 such that the container's total byte length is below 2^(8*W):
\* 1 + W + payload for an equal-length array, 1 + 2*W + payload + count*W
\* for an indexed array and for an object.  (A total below 2^64 is what
\* every payload of the model has, so the width 8 admits all of them.)
C19_SmallestWidth ==
    [][LET total(W, payload, count, equal) ==
               IF equal THEN UsizePlus(payload, 1 + W)
               ELSE UsizePlus(payload, 1 + 2 * W + count * W)
           admits(W, payload, count, equal) ==
               \/ W = 8
               \/ UsizeLess(total(W, payload, count, equal),
                            CASE W = 1 -> <<0, 256>>
                              [] W = 2 -> <<0, 65536>>
                              [] W = 4 -> <<256, 0>>)
           smallest(payload, count, equal) ==
               CHOOSE W \in {1, 2, 4, 8} :
                   /\ admits(W, payload, count, equal)
                   /\ \A V \in {1, 2, 4} : V < W => ~admits(V, payload, count, equal)
       IN /\ (ClosesArray /\ items # <<>> /\ output' # <<>>) =>
                 TagWidth(output'[1]) = smallest(Usize(SumLen(items)), Len(items), SameLength)
          /\ (ClosesMap /\ output' # <<>>) =>
                 TagWidth(output'[1])
                    = smallest(Usize(SumLen(keys) + SumLen(values)), Len(keys), FALSE)
          /\ (phase = "start" /\ phase' = "header" /\ output' # <<>>) =>
                 TagWidth(output'[1]) = smallest(arg'[3], arg'[4], arg'[2] = "equal")
    ]_vars

\* C20: in an indexed array or object the encoder emits, the i-th payload
\* entry starts at offset 1 + 2*W plus the lengths of the entries before
\* it, counted from the container's own type byte, also when the container
\* is an element of another one; the index table holds exactly these
\* offsets, one per entry, in payload order for an array; and the byte at
\* each stored offset is the first byte of that entry.
C20_IndexOffsets ==
    [][LET start(lens, W, i) == 1 + 2 * W + SumLen(SubSeq(lens, 1, i - 1))
           at(c, n, W, r) == from_le_bytes(SubSeq(c, Len(c) - (n - r + 1) * W + 1,
                                                  Len(c) - (n - r) * W))
           \* c is an indexed container of the entries e, in this order for
           \* an array and in some order for an object
           indexed(c, e, ordered) ==
               LET W == TagWidth(c[1])
                   n == Len(e)
               IN /\ Len(c) = 1 + 2 * W + SumLen(e) + n * W
                  /\ \A i \in 1..n :
                        SubSeq(c, start(e, W, i) + 1, start(e, W, i) + Len(e[i])) = e[i]
                  /\ \A r \in 1..n : \E i \in 1..n :
                        /\ at(c, n, W, r) = start(e, W, i)
                        /\ c[at(c, n, W, r) + 1] = e[i][1]
                        /\ ordered => i = r
                  /\ \A i \in 1..n : \E r \in 1..n : at(c, n, W, r) = start(e, W, i)
           \* where the i-th element lies in the array written
           base(out, i) ==
               (IF out[1] \in 2..5 THEN 1 + TagWidth(out[1]) ELSE 1 + 2 * TagWidth(out[1]))
                   + SumLen(SubSeq(items, 1, i - 1))
       IN /\ (ClosesArray /\ items # <<>> /\ ~SameLength) => indexed(output', items, TRUE)
          /\ (ClosesArray /\ items # <<>>) =>
                \A i \in 1..Len(items) :
                    (items[i][1] \in 6..9) =>
                        LET v == arg[2][i]
                            c == SubSeq(output', base(output', i) + 1,
                                        base(output', i) + Len(items[i]))
                        IN indexed(c, [j \in 1..Len(v[2]) |->
                                          serialize(v[2][j], overflow_checks).bytes], TRUE)
          /\ ClosesMap =>
                indexed(output', [i \in 1..Len(keys) |-> keys[i] \o values[i]], FALSE)
    ]_vars

C20_Witness ==
    /\ phase = "done" /\ ser_st = "ok"
    /\ arg = <<"seq", <<One, <<"seq", <<One, <<"str", <<97>> >> >> >> >> >>
    /\ output = <<6, 14, 2, 49, 6, 8, 2, 49, 65, 97, 3, 4, 3, 4>>

C20_WitnessObject ==
    /\ phase = "done" /\ ser_st = "ok"
    /\ arg[1] = "map" /\ Len(arg[2]) = 2
    /\ output = <<11, 11, 2, 65, 98, 49, 65, 97, 49, 6, 3>>

\* C21: for a container of 8-byte width (array 0x09, objects 0x0e and
\* 0x12) the decoder takes the item count from the last 8 bytes of the
\* container, so it delivers that many elements or pairs and uses up the
\* container
C21_TailCount ==
    Parsed(TailCountCases) =>
        /\ de_result.st = "ok"
        /\ Len(de_result.v[2]) = from_le_bytes(Drop(de_input, Len(de_input) - 8))
        /\ de_result.input = <<>>

\* C22: an equal-length array of width W, declared byte length L, p padding
\* bytes and first-element size S decodes to exactly (L - 1 - W - p) / S
\* elements, for every p >= 0
C22_EqualLengthCount ==
    Parsed(EqualLengthCases) =>
        LET W == TagWidth(de_input[1])
            L == from_le_bytes(SubSeq(de_input, 2, 1 + W))
            rest == Drop(de_input, 1 + W)
            pad == PaddingLen(rest, 0)
            S == IF rest[pad + 1] = 41 THEN 3 ELSE 1
        IN /\ de_result.st = "ok"
           /\ Len(de_result.v[2]) = (L - 1 - W - pad) \div S

\* C23: an equal-length array whose payload is not an exact multiple of the
\* size of its first element is a format error, not a value
C23_UnevenPayload ==
    Parsed(UnevenCases) => de_result.st = "err"

\* C25: when the decode of an array element fails, the caller gets the
\* element's error, whatever the framing of the array and the position of
\* the element
C25_ElementError ==
    Parsed(FailingElementCases) =>
        de_result.st = "err" /\ de_result.err = "ExpectedInteger"

\* C24: an indexed array of tag 0x06..0x09 decodes to the same elements and
\* leaves the same number of bytes (none) whatever run of 0x00 bytes
\* stands between its header fields and its first element
C24_IndexedPadding ==
    Parsed(PaddedCases) =>
        /\ de_result.st = "ok"
        /\ de_result.v = <<"seq", << <<"int", "u64", <<1, 0, 0, 0, 0, 0, 0, 0>> >>,
                                     <<"int", "u64", <<0, 1, 0, 0, 0, 0, 0, 0>> >> >> >>
        /\ de_result.input = <<>>

\* the phases in which a container serializer is open
Building == phase \in {"seq", "seq2", "map", "map2"}

\* C26: while elements, keys, values or fields are added to an open
\* container the serializer's output does not change; the close appends the
\* container's bytes, and the bytes that were in the output before the
\* container was opened are still its first bytes.
C26_BufferedUntilClose ==
    [][/\ (Building /\ phase' = phase) => output' = output
       /\ (Building /\ phase' # phase) =>
             /\ Take(output', Len(output)) = output
             /\ ser_st' = "ok" =>
                   output' = output \o (IF phase \in {"seq", "seq2"}
                                        THEN end_array(items, overflow_checks).bytes
                                        ELSE end_map(keys, values, overflow_checks).bytes)]_vars

\* a second value, an array of two elements, closed after a null
C26_Witness ==
    /\ phase = "done2" /\ ser_st = "ok"
    /\ arg = <<"seq", <<One, <<"str", <<97>>>>>>>>
    /\ output = <<24>> \o serialize(arg, overflow_checks).bytes

\* a second value, an object of one pair, closed after a null
C26_WitnessObject ==
    /\ phase = "done2" /\ ser_st = "ok"
    /\ arg[1] = "map" /\ Len(arg[2]) = 1
    /\ output[1] = 24 /\ output[2] = 11

\* C28: the output of every value the Serializer accepts, byte slices and
\* the empty slice included, is not empty and starts with a tag of the
\* type-byte table.
C28_FirstByteInTable ==
    (phase = "done" /\ ser_st = "ok") =>
        /\ output # <<>>
        /\ output[1] \in (1..20) \cup (24..27) \cup (32..191)

\* C27: after a decode the cursor's remaining input is a suffix of the
\* input it started with, and the elements of an array and the entries of
\* an object are delivered in the order of their bytes: the i-th one
\* delivered is the decoding of the i-th one written.
C27_ForwardInOrder ==
    (phase \in {"decoded", "parsed"} /\ de_result.st # "panic") =>
        LET n == Len(de_input) - Len(de_result.input)
            alone(ty, v) == deserialize(ty, serialize(v, overflow_checks).bytes,
                                        overflow_checks).v
        IN /\ n >= 0
           /\ de_result.input = Drop(de_input, n)
           /\ (phase = "decoded" /\ de_result.st = "ok" /\ arg[1] = "seq") =>
                 \A i \in 1..Len(de_result.v[2]) :
                    i <= Len(arg[2]) => de_result.v[2][i] = alone(de_ty[2], arg[2][i])
           /\ (phase = "decoded" /\ de_result.st = "ok" /\ arg[1] = "map") =>
                 \A i \in 1..Len(de_result.v[2]) :
                    i <= Len(arg[2]) =>
                       /\ de_result.v[2][i][1] = alone(de_ty[2], arg[2][i])
                       /\ de_result.v[2][i][2] = alone(de_ty[3], arg[3][i])

\* first_from_bytes on the array [1, "a"] followed by two more bytes
C27_Witness ==
    /\ DecodedBy("first_from_bytes") /\ de_result.st = "ok"
    /\ arg = <<"seq", <<One, <<"str", <<97>>>>>>>>
    /\ Len(de_result.v[2]) = 2
    /\ de_extra = <<49, 49>>
    /\ de_result.input = de_extra

\* from_bytes on an object of two entries
C27_WitnessObject ==
    /\ DecodedBy("from_bytes") /\ de_result.st = "ok"
    /\ arg[1] = "map" /\ Len(arg[2]) = 2
    /\ Len(de_result.v[2]) = 2
    /\ de_result.v[2][1][1] # de_result.v[2][2][1]
    /\ de_result.input = <<>>

\* C29: a scalar decode that rejects the leading type byte with
\* ExpectedBoolean, ExpectedDouble, ExpectedInteger, ExpectedString or
\* ExpectedNull consumes no byte: the cursor's remaining input is the input
\* of the call.
C29_RejectConsumesNothing ==
    (/\ phase \in {"parsed", "decoded"} /\ de_call # "from_bytes"
     /\ de_ty[1] \in ScalarTypes \cup IntTypes
     /\ de_result.st = "err"
     /\ de_result.err \in {"ExpectedBoolean", "ExpectedDouble", "ExpectedInteger",
                           "ExpectedString", "ExpectedNull"}) =>
        de_result.input = de_input

\* a boolean requested on the bytes 31 31 31
C29_Witness ==
    /\ Parsed(ScalarCases) /\ de_ty = <<"bool">>
    /\ de_input = <<49, 49, 49>>
    /\ de_result.st = "err" /\ de_result.err = "ExpectedBoolean"
    /\ de_result.input = <<49, 49, 49>>

\* C30: whenever end_map runs, after serialize_key and serialize_value in
\* any number and order or after serialize_field, as many keys as values
\* have been accumulated, so that its assertions hold.
C30_KeysMatchValues ==
    [][(phase \in {"map", "map2"} /\ phase' \in {"done", "done2"}) =>
          /\ Len(keys) = Len(values)
          /\ ser_st' # "panic"]_vars

====
